---- MODULE Spec2Model ----
(***************************************************************************)
(* Model of the InfoSight submission pipeline:                             *)
(*   supabase/functions/process-submission/index.ts   (ProcessSubmission)  *)
(*   supabase/functions/reprocess-transcripts/index.ts (reprocess job)     *)
(*   src/components/dashboard/VideoUpload.tsx          (client trigger)    *)
(* One submission row and its video blob are shared by the edge-function   *)
(* invocations, the upload form and the reprocess job.                     *)
(***************************************************************************)
EXTENDS Integers, Sequences, FiniteSets, TLC

\* ------------------------------------------------------------------ bounds
MaxKpis == 2          \* longest KPI list an analysis reply carries
MaxInvocations == 2   \* pipeline invocations started in one behaviour
MaxJobRuns == 1       \* reprocess-job runs in one behaviour

\* ------------------------------------------------------- option values
\* A nullable column / an absent JS property is the empty tuple, a present
\* value v is the one-element tuple <<v>>.
None == <<>>
Some(v) == <<v>>
IsSome(o) == Len(o) = 1
Val(o) == o[1]

\* ----------------------------------------------------------- JS strings
\* A string is a sequence of tokens.  Tokens: "bt" (a backtick), "json" (the
\* word json), " " (whitespace), "{", "}", "null" (the JSON literal),
\* "arr" (a JSON array literal), "t" (any other text) and "body" (the
\* members of a JSON object, carried in field v).
EmptyObj == [key_points |-> None, extracted_kpis |-> None, sentiment |-> None, ai_quotes |-> None]
Ch(c) == [c |-> c, v |-> EmptyObj]
Body(o) == [c |-> "body", v |-> o]
Str(cs) == [k \in 1..Len(cs) |-> Ch(cs[k])]

IsWs(tok) == tok.c = " "

\* String.prototype.startsWith / endsWith on token sequences
startsWith(s, p) == Len(s) >= Len(p) /\ SubSeq(s, 1, Len(p)) = p
endsWith(s, p) == Len(s) >= Len(p) /\ SubSeq(s, Len(s) - Len(p) + 1, Len(s)) = p

\* number of leading / trailing whitespace tokens
RECURSIVE LeadWs(_)
LeadWs(s) == IF s = <<>> \/ ~IsWs(Head(s)) THEN 0 ELSE 1 + LeadWs(Tail(s))
RECURSIVE TrailWs(_)
TrailWs(s) == IF s = <<>> \/ ~IsWs(s[Len(s)]) THEN 0 ELSE 1 + TrailWs(SubSeq(s, 1, Len(s) - 1))

\* String.prototype.trim
trimStart(s) == SubSeq(s, LeadWs(s) + 1, Len(s))
trimEnd(s) == SubSeq(s, 1, Len(s) - TrailWs(s))
trim(s) == trimEnd(trimStart(s))

\* indexOf / lastIndexOf of a single token, 0-based, -1 when absent
indexOf(s, c) == IF \E k \in 1..Len(s) : s[k].c = c
                 THEN (CHOOSE k \in 1..Len(s) : s[k].c = c /\ \A j \in 1..(k-1) : s[j].c # c) - 1
                 ELSE -1
lastIndexOf(s, c) == IF \E k \in 1..Len(s) : s[k].c = c
                     THEN (CHOOSE k \in 1..Len(s) : s[k].c = c /\ \A j \in (k+1)..Len(s) : s[j].c # c) - 1
                     ELSE -1

\* String.prototype.substring(a, b) with 0-based a <= b
substring(s, a, b) == SubSeq(s, a + 1, b)

Fence == Str(<<"bt", "bt", "bt">>)
FenceJson == Str(<<"bt", "bt", "bt", "json">>)

\* cleaned.replace(/^(fence)json\s*/, '') and cleaned.replace(/^(fence)\s*/, '')
StripOpenJson(s) == trimStart(SubSeq(s, Len(FenceJson) + 1, Len(s)))
StripOpen(s) == trimStart(SubSeq(s, Len(Fence) + 1, Len(s)))
\* cleaned.replace(/\s*(fence)$/, '')
StripClose(s) == trimEnd(SubSeq(s, 1, Len(s) - Len(Fence)))

cleanJsonResponse(content) ==
  LET c0 == trim(content)
      c1 == IF startsWith(c0, FenceJson) THEN StripOpenJson(c0) ELSE c0
      c2 == IF startsWith(c1, Fence) THEN StripOpen(c1) ELSE c1
      c3 == IF endsWith(c2, Fence) THEN StripClose(c2) ELSE c2
      cleaned == trim(c3)
      firstBrace == indexOf(cleaned, "{")
      lastBrace == lastIndexOf(cleaned, "}")
  IN IF firstBrace # -1 /\ lastBrace # -1 /\ firstBrace < lastBrace
     THEN substring(cleaned, firstBrace, lastBrace + 1)
     ELSE cleaned

\* the copy without the removal of the closing fence
cleanJsonResponseKeepsClose(content) ==
  LET c0 == trim(content)
      c1 == IF startsWith(c0, FenceJson) THEN StripOpenJson(c0) ELSE c0
      c2 == IF startsWith(c1, Fence) THEN StripOpen(c1) ELSE c1
      cleaned == trim(c2)
      firstBrace == indexOf(cleaned, "{")
      lastBrace == lastIndexOf(cleaned, "}")
  IN IF firstBrace # -1 /\ lastBrace # -1 /\ firstBrace < lastBrace
     THEN substring(cleaned, firstBrace, lastBrace + 1)
     ELSE cleaned

\* cleanJsonResponse of reprocess-transcripts (lines 14-41)
cleanJsonResponseReprocess(content) ==
  LET c0 == trim(content)
      c1 == IF startsWith(c0, FenceJson) THEN StripOpenJson(c0) ELSE c0
      c2 == IF startsWith(c1, Fence) THEN StripOpen(c1) ELSE c1
      c3 == IF endsWith(c2, Fence) THEN StripClose(c2) ELSE c2
      cleaned == trim(c3)
      firstBrace == indexOf(cleaned, "{")
      lastBrace == lastIndexOf(cleaned, "}")
  IN IF firstBrace # -1 /\ lastBrace # -1 /\ firstBrace < lastBrace
     THEN substring(cleaned, firstBrace, lastBrace + 1)
     ELSE cleaned

\* JSON.parse: an object literal is "{" body "}" or "{" "}", "null" is the
\* literal null, an array has none of the analysis properties, everything
\* else is a SyntaxError.  Whitespace around and inside the value is skipped.
JSONparse(text) ==
  LET s == SelectSeq(text, LAMBDA tok : ~IsWs(tok))
  IN IF Len(s) = 3 /\ s[1].c = "{" /\ s[2].c = "body" /\ s[3].c = "}"
     THEN [kind |-> "object", v |-> s[2].v]
     ELSE IF Len(s) = 2 /\ s[1].c = "{" /\ s[2].c = "}"
     THEN [kind |-> "object", v |-> EmptyObj]
     ELSE IF Len(s) = 1 /\ s[1].c = "arr"
     THEN [kind |-> "object", v |-> EmptyObj]
     ELSE IF Len(s) = 1 /\ s[1].c = "null"
     THEN [kind |-> "null", v |-> EmptyObj]
     ELSE [kind |-> "SyntaxError", v |-> EmptyObj]

\* ------------------------------------------------------- analysis replies
KpiItems == {"x", "y"}
KpiList(it, n) == [k \in 1..n |-> it]
KeyPointsOf(it) == IF it = "x" THEN <<"px">> ELSE <<"py", "pz">>
SentimentOf(it) == IF it = "x" THEN "positive" ELSE "negative"
QuotesOf(it) == IF it = "x" THEN <<"qx">> ELSE <<>>

\* objects of the fixed shape {key_points, extracted_kpis, sentiment, ai_quotes}
FullObjects ==
  { [key_points |-> Some(KeyPointsOf(it)), extracted_kpis |-> Some(KpiList(it, n)),
     sentiment |-> Some(SentimentOf(it)), ai_quotes |-> Some(QuotesOf(it))] :
    it \in KpiItems, n \in 0..MaxKpis }
\* an object that lacks three of the four properties
PartialObject == [key_points |-> Some(<<"px">>), extracted_kpis |-> None, sentiment |-> None, ai_quotes |-> None]
\* an object whose sentiment is outside the column's CHECK list
MixedObject == [key_points |-> Some(<<"px">>), extracted_kpis |-> Some(<<"x">>),
                sentiment |-> Some("mixed"), ai_quotes |-> Some(<<>>)]
AnalysisObjects == FullObjects \cup {PartialObject, MixedObject}

Bare(o) == <<Ch("{"), Body(o), Ch("}")>>
Fenced(o) == FenceJson \o <<Ch(" ")>> \o Bare(o) \o <<Ch(" ")>> \o Fence
Prose(o) == <<Ch("t"), Ch(" ")>> \o Bare(o) \o <<Ch("t")>>
\* message contents that do not hold an object
OtherContents == { Str(<<"t">>), Str(<<"{", "t">>), Str(<<"null">>), Str(<<"arr">>), <<>> }
AnalysisContents == { Bare(o) : o \in AnalysisObjects } \cup { Fenced(o) : o \in AnalysisObjects }
                    \cup { Prose(o) : o \in AnalysisObjects } \cup OtherContents

\* ------------------------------------------------------------ promises
\* a settled fetch: fulfilled with a response, or rejected with a message
Fulfilled(resp) == [settled |-> "fulfilled", value |-> resp, message |-> <<>>]
Rejected(resp, msg) == [settled |-> "rejected", value |-> resp, message |-> msg]

TranscriptionTimeoutMs == 600000
AnalysisTimeoutMs == 300000
MsText(ms) == IF ms = TranscriptionTimeoutMs THEN "600000" ELSE "300000"

\* Promise.race([promise, timer]): the timer's rejection when the timer
\* fires before the promise settles, the promise's outcome otherwise
withTimeout(promise, timerFirst, timeoutMs) ==
  IF timerFirst
  THEN Rejected(promise.value, <<"Operation timed out after ", MsText(timeoutMs), "ms">>)
  ELSE promise

\* error.message.includes('timed out'), on a message given as its parts
TimedOutParts == {"Operation timed out after ", "upstream request timed out"}
includesTimedOut(msg) == \E k \in 1..Len(msg) : msg[k] \in TimedOutParts

\* ------------------------------------------------------- transcription
Transcripts == {"", "short", "long"}
TranscriptLen(t) == IF t = "" THEN 0 ELSE IF t = "short" THEN 12 ELSE 60
ErrorTexts == {"service error", "upstream request timed out"}
NoResponse == [ok |-> FALSE, text |-> "", errorText |-> ""]
TranscriptionReplies ==
  { Fulfilled([ok |-> TRUE, text |-> t, errorText |-> ""]) : t \in Transcripts }
  \cup { Fulfilled([ok |-> FALSE, text |-> "", errorText |-> e]) : e \in ErrorTexts }
  \cup { Rejected(NoResponse, <<"fetch failed">>) }

\* --------------------------------------------------------- analysis call
\* what the chat-completion fetch settles with; json says how response.json()
\* turns out: a body with choices[0].message.content, a body without
\* choices, or a body that is not JSON
NoAnalysisResponse == [ok |-> FALSE, json |-> "content", content |-> <<>>]
AnalysisReplies ==
  { Fulfilled([ok |-> TRUE, json |-> "content", content |-> c]) : c \in AnalysisContents }
  \cup { Fulfilled([ok |-> TRUE, json |-> j, content |-> <<>>]) : j \in {"no_choices", "invalid"} }
  \cup { Fulfilled(NoAnalysisResponse), Rejected(NoAnalysisResponse, <<"fetch failed">>) }

\* ------------------------------------------------------------ the row
StatusValues == {"processing", "completed", "failed"}
SentimentValues == {"positive", "neutral", "negative"}
VideoFilesValues == {"null", "nopath", "ok"}

\* the row as the upload form inserts it (VideoUpload.tsx) or as an older
\* revision left it (a video_files value without a path); docx_file and
\* pdf_file say whether the property holds the path of a document
NewRow(vf, docx) ==
  [status |-> "processing", processing_error |-> None, transcript |-> None,
   key_points |-> None, extracted_kpis |-> None, sentiment |-> None, ai_quotes |-> None,
   video_files |-> vf, docx_file |-> docx, pdf_file |-> FALSE]

\* an update statement: None leaves the column alone (the property is
\* absent or undefined and is dropped from the request body)
NoUpdate == [status |-> None, processing_error |-> None, transcript |-> None,
             key_points |-> None, extracted_kpis |-> None, sentiment |-> None, ai_quotes |-> None]

\* the CHECK constraints of the submissions table
ChecksPass(upd) ==
  /\ IsSome(upd.status) => Val(upd.status) \in StatusValues
  /\ IsSome(upd.sentiment) => Val(upd.sentiment) \in SentimentValues

ApplyUpdate(r, upd) ==
  [r EXCEPT !.status = IF IsSome(upd.status) THEN Val(upd.status) ELSE @,
            !.processing_error = IF IsSome(upd.processing_error) THEN upd.processing_error ELSE @,
            !.transcript = IF IsSome(upd.transcript) THEN upd.transcript ELSE @,
            !.key_points = IF IsSome(upd.key_points) THEN upd.key_points ELSE @,
            !.extracted_kpis = IF IsSome(upd.extracted_kpis) THEN upd.extracted_kpis ELSE @,
            !.sentiment = IF IsSome(upd.sentiment) THEN upd.sentiment ELSE @,
            !.ai_quotes = IF IsSome(upd.ai_quotes) THEN upd.ai_quotes ELSE @]

\* supabase.from('submissions').update(upd).eq('id', id): the statement
\* reaches the row when the store answers and the constraints pass
UpdateOk(upd, dbOk) == dbOk /\ ChecksPass(upd)

\* ------------------------------------------------------ document stage
\* the strings docxText can hold, by the template that produced them
TxtExtractedLong == "text extracted from the document, over 100 characters"
TxtExtractedShort == "text extracted from the document, 51 to 100 characters"
TxtAnalysisLong == "DOCX Analysis: <content, over 100 characters in all>"
TxtAnalysisShort == "DOCX Analysis: <content, at most 100 characters in all>"
TxtCouldNotExtract == "DOCX processing: Could not extract text directly. File size: <n> bytes. Please ensure the DOCX contains readable text and is not corrupted."
TxtLimited == "DOCX processing: File received (<n> bytes) but content extraction was limited. Please ensure the document contains clear business metrics and KPIs."
TxtProcessingError == "DOCX processing error: <message>. Please ensure the DOCX contains readable text and is not corrupted."
TxtDownloadFailed == "DOCX download failed: <message>"
TxtEmptyFile == "DOCX file appears to be empty or corrupted."
TxtProcessingFailed == "DOCX processing failed: <message>"

\* the strings that stand in for document text when none was extracted
DocxPlaceholders == {TxtCouldNotExtract, TxtLimited, TxtProcessingError,
                     TxtDownloadFailed, TxtEmptyFile, TxtProcessingFailed}

\* docxText.length > 100
Over100(t) == t \in {TxtExtractedLong, TxtAnalysisLong, TxtCouldNotExtract, TxtLimited, TxtProcessingError}
\* docxText.includes('processing error')
includesProcessingError(t) == t = TxtProcessingError

\* how one run of extractDocxText goes: what the scan of the bytes finds
\* (direct) and, when that is 50 characters or less, how the chat call ends
DirectFinds == {"long", "short", "little", "throws"}
FallbackEnds == {"throws", "not_ok", "no_choices", "content_long", "content_short", "no_content"}

\* --- extractDocxText, lines 55-158
extractDocxText(direct, fallback) ==
  IF direct = "throws" THEN TxtProcessingError          \* arrayBuffer() rejects: outer catch
  ELSE IF direct = "long" THEN TxtExtractedLong
  ELSE IF direct = "short" THEN TxtExtractedShort
  ELSE IF fallback \in {"throws", "no_choices"} THEN TxtProcessingError
  ELSE IF fallback = "not_ok" THEN TxtCouldNotExtract
  ELSE IF fallback = "content_long" THEN TxtAnalysisLong
  ELSE IF fallback = "content_short" THEN TxtAnalysisShort
  ELSE TxtLimited

\* whether that run ends in the catch of extractDocxText (lines 154-157)
extractThrows(direct, fallback) ==
  direct = "throws" \/ (direct = "little" /\ fallback \in {"throws", "no_choices"})

DocxDownloads == {"ok", "empty", "error", "throws"}

\* ------------------------------------------------- environment choices
\* What the collaborators (transcription API, chat API, document) may answer.
\* Rich is every answer modelled; Coarse keeps every failure and branch but
\* fewer distinct payloads, for the runs where invocations overlap.
DocxRuns == { [dl |-> dl, direct |-> d, fallback |-> f] :
              dl \in DocxDownloads, d \in DirectFinds, f \in FallbackEnds }
Rich == [transcription |-> TranscriptionReplies, analysis |-> AnalysisReplies,
         reanalysis |-> AnalysisReplies, docx |-> DocxRuns]

CoarseObject(it) == CHOOSE o \in FullObjects : o.extracted_kpis = Some(KpiList(it, 1))
CoarseContents == { Bare(CoarseObject("x")) } \cup (OtherContents \ {Str(<<"arr">>)})
Coarse ==
  [transcription |-> { r \in TranscriptionReplies : r.value.ok => r.value.text = "long" },
   analysis |-> { r \in AnalysisReplies : r.value.content \in CoarseContents },
   reanalysis |-> { r \in AnalysisReplies :
                    r.value.content \in {Bare(CoarseObject("y")), Str(<<"t">>), <<>>} },
   docx |-> { d \in DocxRuns : d.dl \in {"ok", "error"} /\ d.direct \in {"long", "little"}
                               /\ d.fallback \in {"throws", "not_ok"} }]

\* ---------------------------------------------------------------- state
Slots == {"a", "b"}     \* two edge-function instances that can run at once
Rank(i) == IF i = "a" THEN 1 ELSE 2
Target == 1             \* index of the row the pipeline is invoked for

VARIABLES
  rows,           \* the submissions table, in the order the job selects it
  videoBlob,      \* TRUE while the video object of row Target is in blob storage
                  \* (the objects of the other rows are not followed)
  openaiApiKey,   \* TRUE when OPENAI_API_KEY is configured
  inv,            \* per slot: the invocation's position and locals
  started,        \* number of pipeline invocations started so far
  client,         \* the upload form's handleUploadAll, for row Target
  job,            \* the reprocess job's position and locals
  lastWrite       \* writer and statement of the last update that reached row Target

vars == <<rows, videoBlob, openaiApiKey, inv, started, client, job, lastWrite>>

row == rows[Target]

IdleInv ==
  [pc |-> "idle", body |-> "none", bodyUsed |-> FALSE, submissionId |-> "none",
   submission |-> [video_files |-> "null", docx_file |-> FALSE],
   fullTranscript |-> "", docxText |-> "", docxProcessingSuccess |-> FALSE,
   content |-> <<>>, analysisResult |-> EmptyObj, error |-> <<>>, response |-> 0,
   serial |-> 0,           \* which invocation this is, in order of arrival
   timedOut |-> "none",    \* the withTimeout timer that fired, if one did
   late |-> "none",        \* how the request that lost the race settled, once it has
   analysisReply |-> "none",  \* how the analysis call settled, once it has
   docxFailed |-> "none",  \* how the document stage failed, if it did
   ops |-> <<>>]           \* the outbound calls made so far, in order

IdleJob ==
  [pc |-> "idle", runs |-> 0, submissions |-> <<>>, k |-> 0, hasGoodKPIs |-> FALSE,
   newAnalysisResult |-> None, analysisResult |-> EmptyObj,
   processedCount |-> 0, updatedCount |-> 0, response |-> 0, ops |-> <<>>,
   analysisReply |-> "none",   \* how the analysis call for the current row settled
   content |-> <<>>]           \* the message content of that reply, if it had one

\* writers of the row: an invocation (by its serial), the form, the job
Writer(who, serial) == [who |-> who, serial |-> serial]
NoWrite == [by |-> Writer("none", 0), upd |-> NoUpdate]

\* the system as the upload form leaves it: the row inserted with the path
\* of the uploaded video, status processing, and no docx_file property
\* (the form sets pdf_file), process-submission about to be invoked
Init ==
  /\ rows = <<NewRow("ok", FALSE)>>
  /\ videoBlob = TRUE
  /\ openaiApiKey \in BOOLEAN
  /\ inv = [i \in Slots |-> IdleInv]
  /\ started = 0
  /\ client = [pc |-> "invoke", slot |-> "a"]
  /\ job = IdleJob
  /\ lastWrite = NoWrite

\* the pipeline alone, for a row of any shape the handler tests for
InitSeq ==
  /\ \E vf \in VideoFilesValues, docx \in BOOLEAN : rows = <<NewRow(vf, docx)>>
  /\ videoBlob = TRUE
  /\ openaiApiKey \in BOOLEAN
  /\ inv = [i \in Slots |-> IdleInv]
  /\ started = 0
  /\ client = [pc |-> "absent", slot |-> "a"]
  /\ job = IdleJob
  /\ lastWrite = NoWrite

\* request bodies: no submissionId, the id of row Target, an id of no row
Bodies == {"none", "row", "unknown"}

\* the ids of the rows of the table, by position; "row" is the id of row Target
RowIds == <<"row", "row2", "row3", "row4">>
Exists(id) == \E k \in 1..Len(rows) : k <= Len(RowIds) /\ RowIds[k] = id
RowOf(id) == CHOOSE k \in 1..Len(RowIds) : RowIds[k] = id

\* await req.json(): the body stream can be read once
reqJson(iv) ==
  IF iv.bodyUsed THEN [rejected |-> TRUE, submissionId |-> "none"]
                 ELSE [rejected |-> FALSE, submissionId |-> iv.body]

\* throw inside the handler's outer try: control moves to the top-level catch
Throw(iv, msg) == [iv EXCEPT !.pc = "catch", !.error = msg]
Did(iv, op) == [iv EXCEPT !.ops = Append(@, op)]

\* return new Response(...): the handler's locals are gone, what remains is
\* the status code, the error text of an error body, the docxProcessed flag
\* of the success payload, and the record of the calls that were made
Return(iv, code, msg) ==
  [iv EXCEPT !.pc = "done", !.response = code, !.error = msg,
             !.submission = IdleInv.submission, !.fullTranscript = "",
             !.docxText = "", !.content = <<>>, !.analysisResult = EmptyObj,
             !.analysisReply = "none"]

\* an update that takes effect only while the row is still processing
WriteOnce(who, id, upd, dbOk) ==
  IF UpdateOk(upd, dbOk)
  THEN /\ rows' = [rows EXCEPT ![id] = IF @.status = "processing" THEN ApplyUpdate(@, upd) ELSE @]
       /\ lastWrite' = IF id = Target THEN [by |-> who, upd |-> upd] ELSE lastWrite
  ELSE UNCHANGED <<rows, lastWrite>>

\* an update of row id, with the record of who wrote row Target last
Write(who, id, upd, dbOk) ==
  IF UpdateOk(upd, dbOk)
  THEN /\ rows' = [rows EXCEPT ![id] = ApplyUpdate(@, upd)]
       /\ lastWrite' = IF id = Target THEN [by |-> who, upd |-> upd] ELSE lastWrite
  ELSE UNCHANGED <<rows, lastWrite>>

\* --- serve handler of process-submission, lines 160-178, for body b
Invoke(i, b) ==
  /\ inv[i].pc \in {"idle", "done"}
  /\ \A h \in Slots : inv[h].pc = "idle" => Rank(i) <= Rank(h)   \* instances are interchangeable:
  /\ ~(client.pc = "waiting" /\ client.slot = i)                \* a fresh one is taken in order
  /\ started < MaxInvocations
  /\ started' = started + 1
  /\ LET iv0 == [IdleInv EXCEPT !.body = b, !.serial = started + 1]
         parsed == reqJson(iv0)
         iv == [iv0 EXCEPT !.bodyUsed = TRUE, !.submissionId = parsed.submissionId]
     IN inv' = [inv EXCEPT ![i] =
          IF iv.submissionId = "none" THEN Throw(iv, <<"Submission ID is required">>)
          ELSE IF ~openaiApiKey THEN Throw(iv, <<"OpenAI API key not configured">>)
          ELSE [iv EXCEPT !.pc = "fetch"]]
  /\ UNCHANGED <<rows, videoBlob, openaiApiKey, job, lastWrite>>

\* a request from any caller (a retry, a second trigger), its body among B
Receive(i, B) ==
  /\ \E b \in B : Invoke(i, b)
  /\ UNCHANGED client

\* a second trigger for the row while or after the first is served: it is
\* served by an instance of its own
Trigger(i) ==
  /\ inv[i].pc = "idle"
  /\ Receive(i, {"row"})

\* the row fetch without the validation of video_files
FetchRowUnchecked(i) ==
  /\ inv[i].pc = "fetch"
  /\ \E dbOk \in BOOLEAN :
       LET iv == Did(inv[i], "fetch_row")
           found == dbOk /\ Exists(iv.submissionId)
           fetched == rows[RowOf(iv.submissionId)]
           submission == [video_files |-> fetched.video_files, docx_file |-> fetched.docx_file]
       IN inv' = [inv EXCEPT ![i] =
            IF ~found THEN Throw(iv, <<"Submission not found">>)
            ELSE [iv EXCEPT !.pc = "download", !.submission = submission]]
  /\ UNCHANGED <<rows, videoBlob, openaiApiKey, started, client, job, lastWrite>>

\* --- lines 180-202: select the row, validate the video reference
FetchRow(i) ==
  /\ inv[i].pc = "fetch"
  /\ \E dbOk \in BOOLEAN :
       LET iv == Did(inv[i], "fetch_row")
           found == dbOk /\ Exists(iv.submissionId)
           fetched == rows[RowOf(iv.submissionId)]
           submission == [video_files |-> fetched.video_files, docx_file |-> fetched.docx_file]
       IN inv' = [inv EXCEPT ![i] =
            IF ~found THEN Throw(iv, <<"Submission not found">>)
            ELSE IF submission.video_files # "ok"
            THEN Throw([iv EXCEPT !.submission = submission], <<"Invalid video file structure">>)
            ELSE [iv EXCEPT !.pc = "download", !.submission = submission]]
  /\ UNCHANGED <<rows, videoBlob, openaiApiKey, started, client, job, lastWrite>>

\* the catch rethrowing whatever it caught
VideoCatchGeneric(iv, msg) == Throw(iv, <<"Video processing failed: ">> \o msg)

\* --- lines 250-274: the catch around download and transcription
VideoCatch(iv, msg) ==
  IF includesTimedOut(msg)
  THEN [iv EXCEPT !.pc = "timeout_write", !.error = msg]
  ELSE Throw(iv, <<"Video processing failed: ">> \o msg)

\* the download succeeding whether or not the blob is there
DownloadVideoCached(i) ==
  /\ inv[i].pc = "download"
  /\ \E ok \in BOOLEAN, e \in ErrorTexts :
       LET iv == Did(inv[i], "download_video")
       IN inv' = [inv EXCEPT ![i] =
            IF ok THEN [iv EXCEPT !.pc = "transcribe"]
            ELSE VideoCatch(iv, <<"Failed to download video file: ", e>>)]
  /\ UNCHANGED <<rows, videoBlob, openaiApiKey, started, client, job, lastWrite>>

\* --- lines 204-216: download the video blob
DownloadVideo(i) ==
  /\ inv[i].pc = "download"
  /\ \E ok \in BOOLEAN, e \in ErrorTexts :
       /\ (ok /\ RowOf(inv[i].submissionId) = Target) => videoBlob
       /\ LET iv == Did(inv[i], "download_video")
          IN inv' = [inv EXCEPT ![i] =
               IF ok THEN [iv EXCEPT !.pc = "transcribe"]
               ELSE VideoCatch(iv, <<"Failed to download video file: ", e>>)]
  /\ UNCHANGED <<rows, videoBlob, openaiApiKey, started, client, job, lastWrite>>

\* the transcription call made again after a rejected fetch
TranscribeRetry(i, D) ==
  /\ inv[i].pc = "transcribe"
  /\ \E reply \in D.transcription, timerFirst \in BOOLEAN :
       LET iv == [Did(inv[i], "transcribe") EXCEPT !.timedOut = IF timerFirst THEN "transcription" ELSE @]
           r == withTimeout(reply, timerFirst, TranscriptionTimeoutMs)
       IN inv' = [inv EXCEPT ![i] =
            IF r.settled = "rejected" /\ ~timerFirst /\ Len(iv.ops) < 4 THEN iv
            ELSE IF r.settled = "rejected" THEN VideoCatch(iv, r.message)
            ELSE IF ~r.value.ok THEN VideoCatch(iv, <<"Whisper API error: ", r.value.errorText>>)
            ELSE [iv EXCEPT !.fullTranscript = r.value.text,
                            !.pc = IF iv.submission.docx_file THEN "docx" ELSE "analyze"]]
  /\ UNCHANGED <<rows, videoBlob, openaiApiKey, started, client, job, lastWrite>>

\* --- lines 220-248: the transcription call under the 10-minute timeout
Transcribe(i, D) ==
  /\ inv[i].pc = "transcribe"
  /\ \E reply \in D.transcription, timerFirst \in BOOLEAN :
       LET iv == [Did(inv[i], "transcribe") EXCEPT !.timedOut = IF timerFirst THEN "transcription" ELSE @]
           r == withTimeout(reply, timerFirst, TranscriptionTimeoutMs)
       IN inv' = [inv EXCEPT ![i] =
            IF r.settled = "rejected" THEN VideoCatch(iv, r.message)
            ELSE IF ~r.value.ok THEN VideoCatch(iv, <<"Whisper API error: ", r.value.errorText>>)
            ELSE [iv EXCEPT !.fullTranscript = r.value.text,
                            !.pc = IF iv.submission.docx_file THEN "docx" ELSE "analyze"]]
  /\ UNCHANGED <<rows, videoBlob, openaiApiKey, started, client, job, lastWrite>>

TimeoutProcessingError == <<"Processing timed out after 10 minutes. Please try with a shorter video.">>

\* the timeout branch removing the video after its failure write
TimeoutWriteCleanup(i) ==
  /\ inv[i].pc = "timeout_write"
  /\ \E dbOk \in BOOLEAN :
       Write(Writer("invocation", inv[i].serial), RowOf(inv[i].submissionId),
             [NoUpdate EXCEPT !.status = Some("failed"),
                              !.processing_error = Some(TimeoutProcessingError)], dbOk)
  /\ videoBlob' = FALSE
  /\ inv' = [inv EXCEPT ![i] = Return(Did(@, "update_failed_timeout"), 408,
                                      <<"Processing timed out after 10 minutes">>)]
  /\ UNCHANGED <<openaiApiKey, started, client, job>>

\* --- lines 254-271: the dedicated timeout write and the 408 response
TimeoutWrite(i) ==
  /\ inv[i].pc = "timeout_write"
  /\ \E dbOk \in BOOLEAN :
       Write(Writer("invocation", inv[i].serial), RowOf(inv[i].submissionId),
             [NoUpdate EXCEPT !.status = Some("failed"),
                              !.processing_error = Some(TimeoutProcessingError)], dbOk)
  /\ inv' = [inv EXCEPT ![i] = Return(Did(@, "update_failed_timeout"), 408,
                                      <<"Processing timed out after 10 minutes">>)]
  /\ UNCHANGED <<videoBlob, openaiApiKey, started, client, job>>

\* the document stage letting a download error escape
DocxProcessingFatal(i, D) ==
  /\ inv[i].pc = "docx"
  /\ \E run \in D.docx :
       LET iv == Did(inv[i], "download_docx")
           text == extractDocxText(run.direct, run.fallback)
       IN inv' = [inv EXCEPT ![i] =
            IF run.dl \in {"error", "throws"}
            THEN Throw([iv EXCEPT !.docxFailed = "download error"], <<"DOCX download failed">>)
            ELSE IF run.dl = "empty"
            THEN [iv EXCEPT !.pc = "analyze", !.docxText = TxtEmptyFile, !.docxFailed = "empty blob"]
            ELSE [Did(iv, "extract_docx") EXCEPT
                    !.pc = "analyze", !.docxText = text,
                    !.docxFailed = IF extractThrows(run.direct, run.fallback) THEN "extraction throws" ELSE "none",
                    !.docxProcessingSuccess = (text # "" /\ Over100(text) /\ ~includesProcessingError(text))]]
  /\ UNCHANGED <<rows, videoBlob, openaiApiKey, started, client, job, lastWrite>>

\* --- lines 276-314: download the document and extract its text
DocxProcessing(i, D) ==
  /\ inv[i].pc = "docx"
  /\ \E run \in D.docx :
       LET iv == Did(inv[i], "download_docx")
           text == extractDocxText(run.direct, run.fallback)
       IN inv' = [inv EXCEPT ![i] =
            IF run.dl = "error"
            THEN [iv EXCEPT !.pc = "analyze", !.docxText = TxtDownloadFailed, !.docxFailed = "download error"]
            ELSE IF run.dl = "throws"
            THEN [iv EXCEPT !.pc = "analyze", !.docxText = TxtProcessingFailed, !.docxFailed = "download throws"]
            ELSE IF run.dl = "empty"
            THEN [iv EXCEPT !.pc = "analyze", !.docxText = TxtEmptyFile, !.docxFailed = "empty blob"]
            ELSE [Did(iv, "extract_docx") EXCEPT
                    !.pc = "analyze", !.docxText = text,
                    !.docxFailed = IF extractThrows(run.direct, run.fallback) THEN "extraction throws" ELSE "none",
                    !.docxProcessingSuccess = (text # "" /\ Over100(text) /\ ~includesProcessingError(text))]]
  /\ UNCHANGED <<rows, videoBlob, openaiApiKey, started, client, job, lastWrite>>

\* ------------------------------------------------------ analysis stage
\* --- lines 396-401: the default analysis object
DefaultAnalysis ==
  [key_points |-> Some(<<"Content processed successfully">>), extracted_kpis |-> Some(<<>>),
   sentiment |-> Some("neutral"), ai_quotes |-> Some(<<>>)]

\* --- lines 434-438: the catch of the parse try-block logs content, a
\* const of the try block that is out of scope here: a ReferenceError
parseCatch == [threw |-> TRUE, result |-> DefaultAnalysis, message |-> <<"content is not defined">>]

Parsed(res) == [threw |-> FALSE, result |-> res, message |-> <<>>]

\* the parse treating a non-OK response as an exception
parseAnalysisStrict(resp) ==
  IF ~resp.ok THEN [threw |-> TRUE, result |-> DefaultAnalysis, message |-> <<"GPT-4o API error">>]
  ELSE IF resp.json # "content" THEN parseCatch
  ELSE IF resp.content = <<>> THEN Parsed(DefaultAnalysis)
  ELSE LET parsed == JSONparse(cleanJsonResponse(resp.content))
       IN IF parsed.kind = "SyntaxError" THEN parseCatch
          ELSE IF parsed.kind = "null" THEN parseCatch
          ELSE Parsed(parsed.v)

\* --- lines 403-439: from the settled response to analysisResult
parseAnalysis(resp) ==
  IF ~resp.ok THEN Parsed(DefaultAnalysis)
  ELSE IF resp.json # "content" THEN parseCatch          \* json() rejects / choices[0] of undefined
  ELSE IF resp.content = <<>> THEN Parsed(DefaultAnalysis)  \* no content
  ELSE LET parsed == JSONparse(cleanJsonResponse(resp.content))
       IN IF parsed.kind = "SyntaxError" THEN parseCatch
          ELSE IF parsed.kind = "null" THEN parseCatch      \* null.key_points: TypeError
          ELSE Parsed(parsed.v)

\* how the analysis call settled, as lines 392-432 tell the cases apart
ReplyKind(r) ==
  IF r.settled = "rejected" THEN "rejected"
  ELSE IF ~r.value.ok THEN "not_ok"
  ELSE IF r.value.json # "content" THEN r.value.json
  ELSE IF r.value.content = <<>> THEN "no_content"
  ELSE "content"

\* --- lines 369-439: the analysis call under the 5-minute timeout, and the parse
Analyze(i, D) ==
  /\ inv[i].pc = "analyze"
  /\ \E reply \in D.analysis, timerFirst \in BOOLEAN :
       LET r == withTimeout(reply, timerFirst, AnalysisTimeoutMs)
           p == parseAnalysis(r.value)
           iv == [Did(inv[i], "analyze") EXCEPT
                    !.timedOut = IF timerFirst THEN "analysis" ELSE @,
                    !.analysisReply = IF timerFirst THEN "timeout" ELSE ReplyKind(r),
                    !.content = IF r.settled = "fulfilled" /\ r.value.ok /\ r.value.json = "content"
                                THEN r.value.content ELSE <<>>]
       IN inv' = [inv EXCEPT ![i] =
            IF r.settled = "rejected" THEN Throw(iv, r.message)
            ELSE IF p.threw THEN Throw(iv, p.message)
            ELSE [iv EXCEPT !.pc = "update", !.analysisResult = p.result]]
  /\ UNCHANGED <<rows, videoBlob, openaiApiKey, started, client, job, lastWrite>>

\* the update statement with the KPI list left empty
updateDataNoKpis(iv) ==
  [status |-> Some("completed"), processing_error |-> None,
   transcript |-> Some(iv.fullTranscript),
   key_points |-> iv.analysisResult.key_points,
   extracted_kpis |-> Some(<<>>),
   sentiment |-> iv.analysisResult.sentiment,
   ai_quotes |-> iv.analysisResult.ai_quotes]

\* --- lines 443-451
updateData(iv) ==
  [status |-> Some("completed"), processing_error |-> None,
   transcript |-> Some(iv.fullTranscript),
   key_points |-> iv.analysisResult.key_points,
   extracted_kpis |-> iv.analysisResult.extracted_kpis,
   sentiment |-> iv.analysisResult.sentiment,
   ai_quotes |-> iv.analysisResult.ai_quotes]

\* the completion update with its result not inspected
UpdateRowUnchecked(i) ==
  /\ inv[i].pc = "update"
  /\ \E dbOk \in BOOLEAN :
       LET iv == Did(inv[i], "update_completed")
       IN /\ Write(Writer("invocation", iv.serial), RowOf(iv.submissionId), updateData(iv), dbOk)
          /\ inv' = [inv EXCEPT ![i] = [iv EXCEPT !.pc = "delete"]]
  /\ UNCHANGED <<videoBlob, openaiApiKey, started, client, job>>

\* --- lines 461-469: the completion update
UpdateRow(i) ==
  /\ inv[i].pc = "update"
  /\ \E dbOk \in BOOLEAN :
       LET iv == Did(inv[i], "update_completed")
       IN /\ Write(Writer("invocation", iv.serial), RowOf(iv.submissionId), updateData(iv), dbOk)
          /\ inv' = [inv EXCEPT ![i] =
               IF UpdateOk(updateData(iv), dbOk) THEN [iv EXCEPT !.pc = "delete"]
               ELSE Throw(iv, <<"update rejected by the store">>)]
  /\ UNCHANGED <<videoBlob, openaiApiKey, started, client, job>>

DeleteEnds == {"ok", "error", "throws"}

\* the delete letting an exception of the storage call escape
DeleteVideoFatal(i) ==
  /\ inv[i].pc = "delete"
  /\ \E d \in DeleteEnds :
       /\ videoBlob' = IF d = "ok" THEN FALSE ELSE videoBlob
       /\ inv' = [inv EXCEPT ![i] =
            IF d = "throws" THEN Throw(Did(@, "delete_video"), <<"storage remove failed">>)
            ELSE Return(Did(@, "delete_video"), 200, <<>>)]
  /\ UNCHANGED <<rows, openaiApiKey, started, client, job, lastWrite>>

\* --- lines 473-506: best-effort delete of the video, then the 200 response
DeleteVideo(i) ==
  /\ inv[i].pc = "delete"
  /\ \E d \in DeleteEnds :
       videoBlob' = IF d = "ok" /\ RowOf(inv[i].submissionId) = Target THEN FALSE ELSE videoBlob
  /\ inv' = [inv EXCEPT ![i] = Return(Did(@, "delete_video"), 200, <<>>)]
  /\ UNCHANGED <<rows, openaiApiKey, started, client, job, lastWrite>>

\* the top-level catch using the id the handler read at its start
CatchRemembering(i) ==
  /\ inv[i].pc = "catch"
  /\ LET submissionId == inv[i].submissionId
     IN IF submissionId # "none"
        THEN /\ \E dbOk \in BOOLEAN :
                  IF Exists(submissionId)
                  THEN Write(Writer("invocation", inv[i].serial), RowOf(submissionId),
                             [NoUpdate EXCEPT !.status = Some("failed"),
                                              !.processing_error = Some(inv[i].error)], dbOk)
                  ELSE UNCHANGED <<rows, lastWrite>>
             /\ inv' = [inv EXCEPT ![i] = Return(Did(@, "update_failed"), 500, @.error)]
        ELSE /\ UNCHANGED <<rows, lastWrite>>
             /\ inv' = [inv EXCEPT ![i] = Return(@, 500, @.error)]
  /\ UNCHANGED <<videoBlob, openaiApiKey, started, client, job>>

\* --- lines 508-539: the top-level catch reads the body again for the id
Catch(i) ==
  /\ inv[i].pc = "catch"
  /\ LET again == reqJson(inv[i])
         submissionId == IF again.rejected THEN "none" ELSE again.submissionId
     IN IF submissionId # "none"
        THEN /\ \E dbOk \in BOOLEAN :
                  IF Exists(submissionId)
                  THEN Write(Writer("invocation", inv[i].serial), RowOf(submissionId),
                             [NoUpdate EXCEPT !.status = Some("failed"),
                                              !.processing_error = Some(inv[i].error)], dbOk)
                  ELSE UNCHANGED <<rows, lastWrite>>
             /\ inv' = [inv EXCEPT ![i] = Return(Did(@, "update_failed"), 500, @.error)]
        ELSE /\ UNCHANGED <<rows, lastWrite>>
             /\ inv' = [inv EXCEPT ![i] = Return(@, 500, @.error)]
  /\ UNCHANGED <<videoBlob, openaiApiKey, started, client, job>>

\* the runtime stops the function between two awaits (resource or
\* wall-clock limit, redeploy): nothing of the handler runs after that,
\* neither the catch blocks nor a response
Crash(i) ==
  /\ inv[i].pc \notin {"idle", "done", "crashed"}
  /\ inv' = [inv EXCEPT ![i] = [Return(@, 0, <<>>) EXCEPT !.pc = "crashed"]]
  /\ UNCHANGED <<rows, videoBlob, openaiApiKey, started, client, job, lastWrite>>

\* ------------------------------------------------------ the upload form
\* --- VideoUpload.tsx lines 270-274: invoke process-submission for the row
ClientInvoke(i) ==
  /\ client.pc = "invoke"
  /\ inv[i].pc = "idle"
  /\ Invoke(i, "row")
  /\ client' = [pc |-> "waiting", slot |-> i]

\* the form putting the row back to processing instead
ClientMarkProcessing(dbOk) ==
  Write(Writer("client", 0), Target, [NoUpdate EXCEPT !.status = Some("processing")], dbOk)

\* --- VideoUpload.tsx lines 276-287: on an invoke error, mark the row failed
ClientMarkFailed(dbOk) ==
  Write(Writer("client", 0), Target,
        [NoUpdate EXCEPT !.status = Some("failed"),
                         !.processing_error = Some(<<"Processing function error: ", "<message>">>)], dbOk)

\* the invocation has responded: a 2xx is a result, anything else an error
ClientReturn ==
  /\ client.pc = "waiting"
  /\ inv[client.slot].pc = "done"
  /\ IF inv[client.slot].response = 200
     THEN UNCHANGED <<rows, lastWrite>>
     ELSE \E dbOk \in BOOLEAN : ClientMarkFailed(dbOk)
  /\ client' = [client EXCEPT !.pc = "done"]
  /\ UNCHANGED <<videoBlob, openaiApiKey, inv, started, job>>

\* invoke resolves with a fetch/relay error while the function still runs
ClientInvokeFails ==
  /\ client.pc = "waiting"
  /\ inv[client.slot].pc # "done"
  /\ \E dbOk \in BOOLEAN : ClientMarkFailed(dbOk)
  /\ client' = [client EXCEPT !.pc = "done"]
  /\ UNCHANGED <<videoBlob, openaiApiKey, inv, started, job>>

\* ------------------------------------------------------ reprocess job
\* --- reprocess-transcripts lines 57-63: completed rows with a transcript
\* (of the selected columns, the ones the loop reads)
Columns(id) ==
  [id |-> id, transcript |-> rows[id].transcript, key_points |-> rows[id].key_points,
   extracted_kpis |-> rows[id].extracted_kpis, sentiment |-> rows[id].sentiment,
   ai_quotes |-> rows[id].ai_quotes]
\* the selection without the status filter
SelectedAnyStatus == LET hit == SelectSeq([id \in 1..Len(rows) |-> id],
                                          LAMBDA id : IsSome(rows[id].transcript))
                     IN [k \in 1..Len(hit) |-> Columns(hit[k])]
Selected == LET hit == SelectSeq([id \in 1..Len(rows) |-> id],
                                 LAMBDA id : rows[id].status = "completed" /\ IsSome(rows[id].transcript))
            IN [k \in 1..Len(hit) |-> Columns(hit[k])]

\* move to the next selected row, or leave the loop and respond (lines 252-262)
NextRow(j) ==
  LET n == [j EXCEPT !.hasGoodKPIs = FALSE, !.newAnalysisResult = None, !.analysisResult = EmptyObj,
                     !.analysisReply = "none", !.content = <<>>]
  IN IF j.k < Len(j.submissions)
     THEN [n EXCEPT !.k = @ + 1, !.pc = "row"]
     ELSE [n EXCEPT !.pc = "done", !.response = 200, !.submissions = <<>>, !.k = 0]

\* --- lines 48-75: start of a run, the selection
JobSelect ==
  /\ job.pc \in {"idle", "done"}
  /\ job.runs < MaxJobRuns
  /\ \E dbOk \in BOOLEAN :
       LET j == [IdleJob EXCEPT !.runs = job.runs + 1]
       IN job' = IF ~openaiApiKey \/ ~dbOk
                 THEN [j EXCEPT !.pc = "done", !.response = 500]
                 ELSE NextRow([j EXCEPT !.submissions = Selected, !.ops = <<"select">>])
  /\ UNCHANGED <<rows, videoBlob, openaiApiKey, inv, started, client, lastWrite>>

\* --- line 80
hasGoodKPIs(submission) ==
  IsSome(submission.extracted_kpis) /\ Len(Val(submission.extracted_kpis)) > 0

\* --- lines 160-165: the result the update uses unless a new one replaces it
keptAnalysis(submission) ==
  [key_points |-> IF hasGoodKPIs(submission) THEN submission.key_points
                  ELSE Some(<<"Content reprocessed successfully">>),
   extracted_kpis |-> IF hasGoodKPIs(submission) THEN submission.extracted_kpis ELSE Some(<<>>),
   sentiment |-> IF IsSome(submission.sentiment) THEN submission.sentiment ELSE Some("neutral"),
   ai_quotes |-> IF IsSome(submission.ai_quotes) THEN submission.ai_quotes ELSE Some(<<>>)]

\* newAnalysisResult.extracted_kpis?.length, 0 standing for undefined in
\* the comparison below (undefined > n is false, as 0 > n is for n >= 0)
kpiCount(o) == IF IsSome(o.extracted_kpis) THEN Len(Val(o.extracted_kpis)) ELSE 0

\* the replacement test with "at least as many"
replacesAtLeast(submission, new) ==
  ~hasGoodKPIs(submission) \/ kpiCount(new) >= kpiCount(submission)

\* --- line 191: whether the new result replaces the kept one
replaces(submission, new) ==
  ~hasGoodKPIs(submission) \/ kpiCount(new) > kpiCount(submission)

\* --- lines 167-212: from the settled response to one of
\*   "update"   go on to the update with result,
\*   "continue" processedCount++ and continue,
\*   "throw"    an exception reaches the per-row catch
reprocessAnalysis(submission, resp) ==
  LET good == hasGoodKPIs(submission)
      kept == keptAnalysis(submission)
      caught == [to |-> IF good THEN "continue" ELSE "update", result |-> kept, new |-> None]
  IN IF ~resp.ok THEN caught
     ELSE IF resp.json # "content" THEN caught
     ELSE IF resp.content = <<>> THEN [to |-> "update", result |-> kept, new |-> None]
     ELSE LET parsed == JSONparse(cleanJsonResponseReprocess(resp.content))
          IN IF parsed.kind = "SyntaxError" THEN caught
             ELSE IF parsed.kind = "null"
             THEN IF good THEN caught ELSE [to |-> "throw", result |-> kept, new |-> None]
             ELSE [to |-> "update", new |-> Some(parsed.v),
                   result |-> IF replaces(submission, parsed.v) THEN parsed.v ELSE kept]

\* --- lines 76-212: one selected row up to the update
JobAnalyze(D) ==
  /\ job.pc = "row"
  /\ LET submission == job.submissions[job.k]
         transcriptText == Val(submission.transcript)
     IN IF TranscriptLen(transcriptText) < 50
        THEN job' = NextRow(job)
        ELSE \E reply \in D.reanalysis :
               LET j == [job EXCEPT !.ops = Append(@, "analyze"), !.hasGoodKPIs = hasGoodKPIs(submission),
                                    !.analysisReply = ReplyKind(reply),
                                    !.content = IF ReplyKind(reply) = "content"
                                                THEN reply.value.content ELSE <<>>]
                   a == reprocessAnalysis(submission, reply.value)
               IN job' = IF reply.settled = "rejected" \/ a.to = "throw" THEN NextRow(j)
                         ELSE IF a.to = "continue"
                         THEN NextRow([j EXCEPT !.processedCount = @ + 1])
                         ELSE [j EXCEPT !.pc = "update", !.analysisResult = a.result,
                                        !.newAnalysisResult = a.new]
  /\ UNCHANGED <<rows, videoBlob, openaiApiKey, inv, started, client, lastWrite>>

\* the update statement also setting the status
jobUpdateDataWithStatus(j) ==
  [NoUpdate EXCEPT !.status = Some("completed"),
                   !.key_points = j.analysisResult.key_points,
                   !.extracted_kpis = j.analysisResult.extracted_kpis,
                   !.sentiment = j.analysisResult.sentiment,
                   !.ai_quotes = j.analysisResult.ai_quotes]

\* --- lines 214-221
jobUpdateData(j) ==
  [NoUpdate EXCEPT !.key_points = j.analysisResult.key_points,
                   !.extracted_kpis = j.analysisResult.extracted_kpis,
                   !.sentiment = j.analysisResult.sentiment,
                   !.ai_quotes = j.analysisResult.ai_quotes]

\* the update whose error ends the run
JobUpdateFatal ==
  /\ job.pc = "update"
  /\ \E dbOk \in BOOLEAN :
       /\ Write(Writer("job", 0), job.submissions[job.k].id, jobUpdateData(job), dbOk)
       /\ job' = IF UpdateOk(jobUpdateData(job), dbOk)
                 THEN [job EXCEPT !.pc = "delay", !.ops = Append(@, "update"),
                                  !.processedCount = @ + 1, !.updatedCount = @ + 1]
                 ELSE [job EXCEPT !.pc = "done", !.response = 500, !.ops = Append(@, "update"),
                                  !.submissions = <<>>, !.k = 0]
  /\ UNCHANGED <<videoBlob, openaiApiKey, inv, started, client>>

\* --- lines 229-241: the update of the row
JobUpdate ==
  /\ job.pc = "update"
  /\ \E dbOk \in BOOLEAN :
       /\ Write(Writer("job", 0), job.submissions[job.k].id, jobUpdateData(job), dbOk)
       /\ job' = [job EXCEPT !.pc = "delay", !.ops = Append(@, "update"),
                             !.processedCount = @ + 1,
                             !.updatedCount = IF UpdateOk(jobUpdateData(job), dbOk) THEN @ + 1 ELSE @]
  /\ UNCHANGED <<videoBlob, openaiApiKey, inv, started, client>>

\* --- lines 243-244: the fixed one-second delay
JobDelay ==
  /\ job.pc = "delay"
  /\ job' = NextRow([job EXCEPT !.ops = Append(@, "delay")])
  /\ UNCHANGED <<rows, videoBlob, openaiApiKey, inv, started, client, lastWrite>>

\* the whole system: overlapping invocations, the upload form, the job
Next ==
  \/ \E i \in Slots :
       \/ ClientInvoke(i)
       \/ Trigger(i)
       \/ FetchRow(i)
       \/ DownloadVideo(i)
       \/ Transcribe(i, Coarse)
       \/ TimeoutWrite(i)
       \/ Analyze(i, Coarse)
       \/ UpdateRow(i)
       \/ DeleteVideo(i)
       \/ Catch(i)
       \/ Crash(i)
  \/ ClientReturn
  \/ ClientInvokeFails
  \/ JobSelect
  \/ JobAnalyze(Coarse)
  \/ JobUpdate
  \/ JobDelay

Spec == Init /\ [][Next]_vars

\* the pipeline with one invocation at a time (one instance, invoked again
\* after it has responded), every modelled answer
First == CHOOSE i \in Slots : TRUE
NextSeq ==
  \/ Receive(First, Bodies)
  \/ FetchRow(First)
  \/ DownloadVideo(First)
  \/ Transcribe(First, Rich)
  \/ TimeoutWrite(First)
  \/ DocxProcessing(First, Rich)
  \/ Analyze(First, Rich)
  \/ UpdateRow(First)
  \/ DeleteVideo(First)
  \/ Catch(First)

SpecSeq == InitSeq /\ [][NextSeq]_vars

\* the reprocess job alone, over a table of rows of every shape the
\* pipeline leaves behind
\* a row as a completion update of process-submission leaves it
CompletedRow(t, o) ==
  ApplyUpdate(NewRow("ok", FALSE),
              updateData([IdleInv EXCEPT !.fullTranscript = t, !.analysisResult = o]))
StoredAnalyses == FullObjects \cup {PartialObject, DefaultAnalysis}
JobRows == { CompletedRow(t, o) : t \in Transcripts, o \in StoredAnalyses }
           \cup { NewRow("ok", FALSE) }
OtherRows == { CompletedRow("long", CoarseObject("x")), NewRow("ok", FALSE) }

InitReprocess ==
  /\ \E r \in JobRows, q \in OtherRows : rows = <<r, q>>
  /\ videoBlob = (rows[Target].status # "completed")
  /\ openaiApiKey \in BOOLEAN
  /\ inv = [i \in Slots |-> IdleInv]
  /\ started = 0
  /\ client = [pc |-> "absent", slot |-> "a"]
  /\ job = IdleJob
  /\ lastWrite = NoWrite

NextReprocess ==
  \/ JobSelect
  \/ JobAnalyze(Rich)
  \/ JobUpdate
  \/ JobDelay

SpecReprocess == InitReprocess /\ [][NextReprocess]_vars

\* ------------------------------------------- the upload form, a batch
\* handleUploadAll for a batch: the videos the user selected (MaxVideos at
\* most), with or without a supporting PDF.  The table starts empty; the
\* first row the form inserts is row Target.
MaxVideos == 2

\* --- VideoUpload.tsx lines 233-248: the inserted row; the document path
\* goes to pdf_file, and no docx_file property is sent
FormRow(pdfFileName) == [NewRow("ok", FALSE) EXCEPT !.pdf_file = pdfFileName]

InitForm ==
  /\ rows = <<>>
  /\ videoBlob = FALSE
  /\ openaiApiKey \in BOOLEAN
  /\ inv = [i \in Slots |-> IdleInv]
  /\ started = 0
  /\ \E pdf \in BOOLEAN, n \in 1..MaxVideos :
       client = [pc |-> "upload_pdf", slot |-> "a", selectedPDF |-> pdf, videos |-> n,
                 pdfFileName |-> FALSE, submissionIds |-> <<>>, i |-> 0,
                 invoked |-> <<>>]      \* the rows process-submission was invoked for
  /\ job = IdleJob
  /\ lastWrite = NoWrite

\* --- lines 330-341: the outer catch and finally end the batch
FormAbort(c) == [c EXCEPT !.pc = "finished"]

\* --- lines 192-206: upload the PDF first, if one is selected
FormUploadPdf ==
  /\ client.pc = "upload_pdf"
  /\ \E ok \in BOOLEAN :
       client' = IF ~client.selectedPDF THEN [client EXCEPT !.pc = "upload_video"]
                 ELSE IF ok THEN [client EXCEPT !.pc = "upload_video", !.pdfFileName = TRUE]
                 ELSE FormAbort(client)
  /\ UNCHANGED <<rows, videoBlob, openaiApiKey, inv, started, job, lastWrite>>

\* --- lines 211-228: first loop, upload the next video
FormUploadVideo ==
  /\ client.pc = "upload_video"
  /\ \E ok \in BOOLEAN :
       /\ client' = IF ok THEN [client EXCEPT !.pc = "insert"] ELSE FormAbort(client)
       /\ videoBlob' = IF ok /\ Len(rows) + 1 = Target THEN TRUE ELSE videoBlob
  /\ UNCHANGED <<rows, openaiApiKey, inv, started, job, lastWrite>>

\* --- lines 230-256: first loop, insert the row for the uploaded video; after
\* the last video the second loop starts (lines 258-262)
FormInsert ==
  /\ client.pc = "insert"
  /\ \E dbOk \in BOOLEAN :
       IF dbOk
       THEN /\ rows' = Append(rows, FormRow(client.pdfFileName))
            /\ client' = LET ids == Append(client.submissionIds, Len(rows) + 1)
                         IN IF Len(ids) < client.videos
                            THEN [client EXCEPT !.submissionIds = ids, !.pc = "upload_video"]
                            ELSE [client EXCEPT !.submissionIds = ids, !.pc = "invoke", !.i = 1]
       ELSE /\ client' = FormAbort(client)
            /\ UNCHANGED rows
  /\ UNCHANGED <<videoBlob, openaiApiKey, inv, started, job, lastWrite>>

\* --- lines 262-274: second loop, invoke process-submission for the next id
FormInvoke(s) ==
  /\ client.pc = "invoke"
  /\ Invoke(s, RowIds[client.submissionIds[client.i]])
  /\ client' = [client EXCEPT !.pc = "waiting", !.slot = s,
                              !.invoked = Append(@, client.submissionIds[client.i])]

\* --- lines 276-284: on an invoke error, mark that row failed
FormMarkFailed(id, dbOk) ==
  Write(Writer("client", 0), id,
        [NoUpdate EXCEPT !.status = Some("failed"),
                         !.processing_error = Some(<<"Processing function error: ", "<message>">>)], dbOk)

\* --- lines 286-305: the inner catch reports the error and the loop goes on
\* with the next id (after a 2-second pause), or ends the batch
FormAdvance(c) ==
  IF c.i < Len(c.submissionIds) THEN [c EXCEPT !.i = @ + 1, !.pc = "invoke"]
  ELSE [c EXCEPT !.pc = "finished"]

\* the invocation has responded: a 2xx is a result, anything else an error
FormReturn ==
  /\ client.pc = "waiting"
  /\ inv[client.slot].pc = "done"
  /\ IF inv[client.slot].response = 200
     THEN UNCHANGED <<rows, lastWrite>>
     ELSE \E dbOk \in BOOLEAN : FormMarkFailed(client.submissionIds[client.i], dbOk)
  /\ client' = FormAdvance(client)
  /\ UNCHANGED <<videoBlob, openaiApiKey, inv, started, job>>

\* invoke resolves with a fetch/relay error while the function still runs
FormInvokeFails ==
  /\ client.pc = "waiting"
  /\ inv[client.slot].pc # "done"
  /\ \E dbOk \in BOOLEAN : FormMarkFailed(client.submissionIds[client.i], dbOk)
  /\ client' = FormAdvance(client)
  /\ UNCHANGED <<videoBlob, openaiApiKey, inv, started, job>>

\* the form and the invocations it starts.  A row of the form has no
\* docx_file, so no invocation here reaches the document stage (see
\* FormNeverAtDocx)
NextForm ==
  \/ FormUploadPdf
  \/ FormUploadVideo
  \/ FormInsert
  \/ FormReturn
  \/ FormInvokeFails
  \/ \E i \in Slots :
       \/ FormInvoke(i)
       \/ FetchRow(i)
       \/ DownloadVideo(i)
       \/ Transcribe(i, Coarse)
       \/ TimeoutWrite(i)
       \/ Analyze(i, Coarse)
       \/ UpdateRow(i)
       \/ DeleteVideo(i)
       \/ Catch(i)

SpecForm == InitForm /\ [][NextForm]_vars

\* no invocation started by the form is ever at the document stage
FormNeverAtDocx == \A i \in Slots : inv[i].pc # "docx"

\* ------------------------------------ the request that lost the race
\* withTimeout (lines 15-23) is Promise.race of the request and the timer.
\* When the timer wins, the request is not cancelled and settles later; the
\* race is settled already, so nothing is waiting for the outcome.
LateOutcomes == {"fulfilled", "rejected"}

\* the late settlement waking up the handler where it had stopped
LateSettleResumes(i) ==
  /\ inv[i].timedOut = "transcription"
  /\ inv[i].late = "none"
  /\ \E o \in LateOutcomes :
       inv' = [inv EXCEPT ![i] = IF o = "fulfilled"
                                 THEN [@ EXCEPT !.late = o, !.pc = "analyze", !.fullTranscript = "long"]
                                 ELSE [@ EXCEPT !.late = o]]
  /\ UNCHANGED <<rows, videoBlob, openaiApiKey, started, client, job, lastWrite>>

LateSettle(i) ==
  /\ inv[i].timedOut = "transcription"
  /\ inv[i].late = "none"
  /\ \E o \in LateOutcomes : inv' = [inv EXCEPT ![i].late = o]
  /\ UNCHANGED <<rows, videoBlob, openaiApiKey, started, client, job, lastWrite>>

\* the pipeline, one invocation at a time, with the late settlements
NextLate ==
  \/ NextSeq
  \/ LateSettle(First)

SpecLate == InitSeq /\ [][NextLate]_vars

\* ------------------------------------- the two cleanJsonResponse copies
\* Message contents made of at most MaxPieces pieces: fences, whitespace,
\* braces, other text, and an object literal.
MaxPieces == 4
Pieces == { Fence, FenceJson, Str(<<" ">>), Str(<<"{">>), Str(<<"}">>), Str(<<"t">>),
            Bare(CoarseObject("x")) }
RECURSIVE Concats(_)
Concats(n) == IF n = 0 THEN {<<>>}
              ELSE LET shorter == Concats(n - 1)
                   IN shorter \cup { s \o p : s \in shorter, p \in Pieces }
CleanContents == Concats(MaxPieces)

\* the chat API answering OK with any of these contents
CleanInputs ==
  [transcription |-> Coarse.transcription,
   analysis |-> { Fulfilled([ok |-> TRUE, json |-> "content", content |-> c]) : c \in CleanContents },
   reanalysis |-> { Fulfilled([ok |-> TRUE, json |-> "content", content |-> c]) : c \in CleanContents },
   docx |-> Coarse.docx]

\* each function on its own: process-submission invoked for a new row with
\* the job not run, or the job run over a completed row with no invocation
InitClean ==
  /\ openaiApiKey = TRUE
  /\ inv = [i \in Slots |-> IdleInv]
  /\ client = [pc |-> "absent", slot |-> "a"]
  /\ job = IdleJob
  /\ lastWrite = NoWrite
  /\ \/ /\ rows = <<NewRow("ok", FALSE)>>
        /\ videoBlob = TRUE
        /\ started = 0
     \/ /\ rows = <<CompletedRow("long", DefaultAnalysis)>>
        /\ videoBlob = FALSE
        /\ started = MaxInvocations

\* the job is started when there is a completed row to analyse again
JobSelectCompleted ==
  /\ row.status = "completed" /\ started = MaxInvocations
  /\ JobSelect

NextClean ==
  \/ Trigger(First)
  \/ FetchRow(First)
  \/ DownloadVideo(First)
  \/ Transcribe(First, CleanInputs)
  \/ TimeoutWrite(First)
  \/ Analyze(First, CleanInputs)
  \/ UpdateRow(First)
  \/ DeleteVideo(First)
  \/ Catch(First)
  \/ JobSelectCompleted
  \/ JobAnalyze(CleanInputs)
  \/ JobUpdate
  \/ JobDelay

SpecClean == InitClean /\ [][NextClean]_vars

\* ================================================================ claims
Range(seq) == { seq[k] : k \in 1..Len(seq) }

AnalysisFields == {"key_points", "extracted_kpis", "sentiment", "ai_quotes"}

\* an invocation is about to return / has just returned its response
Returns(i) == inv[i].pc # "done" /\ inv'[i].pc = "done"

\* C1 (happy path): when an invocation returns after the row fetch, the
\* download, the transcription, the analysis call and the row update all
\* succeeded, and the analysis content parses as a JSON object, then the
\* response is 200, the row is completed, its transcript is the transcription
\* text, and each analysis property of the parsed object is the row's column.
C1_HappyPath ==
  [][ \A i \in Slots :
        (Returns(i) /\ inv[i].pc = "delete" /\ inv[i].content # <<>>) =>
          LET parsed == JSONparse(cleanJsonResponse(inv[i].content))
          IN parsed.kind = "object" =>
               /\ inv'[i].response = 200
               /\ row'.status = "completed"
               /\ row'.transcript = Some(inv[i].fullTranscript)
               /\ \A f \in AnalysisFields : IsSome(parsed.v[f]) => row'[f] = parsed.v[f]
    ]_vars

\* C1 witness: an invocation has returned 200, its completion update is the
\* last write, and the row carries the transcript and a full KPI list
C1_Witness ==
  \E i \in Slots :
    /\ inv[i].pc = "done" /\ inv[i].response = 200
    /\ lastWrite.by = Writer("invocation", inv[i].serial)
    /\ row.status = "completed" /\ row.transcript = Some("long")
    /\ row.extracted_kpis = Some(KpiList("y", MaxKpis))
    /\ row.key_points = Some(KeyPointsOf("y")) /\ row.sentiment = Some(SentimentOf("y"))

\* C2 (status lifecycle, as the code has it): the row is created with status
\* processing, and every later change of the status, by an invocation, the
\* upload form or the reprocess job, sets completed or failed: the status
\* never goes back to processing.  A terminal status is not final: a later
\* writer may overwrite it with the other terminal value.
C2_StatusLifecycle ==
  /\ row.status = "processing"
  /\ [][ row'.status # row.status => row'.status \in {"completed", "failed"} ]_vars

\* C2 as stated: once the status is terminal no write changes it
C2_TerminalIsFinal ==
  [][ row.status \in {"completed", "failed"} => row'.status = row.status ]_vars

\* C2 witness: the row was marked failed by one writer and then completed by
\* an invocation (the completion update leaves processing_error in place)
C2_Witness ==
  /\ row.status = "completed"
  /\ IsSome(row.processing_error)
  /\ lastWrite.by.who = "invocation"

\* C3 (malformed analysis output is not fatal): when the analysis call
\* returns an OK response whose content, after cleanJsonResponse, does not
\* parse as JSON, the invocation goes on to the row update with the default
\* analysis object.
C3_MalformedNotFatal ==
  [][ \A i \in Slots :
        (inv[i].pc = "analyze" /\ inv'[i].pc # "analyze" /\ inv'[i].content # <<>>
         /\ JSONparse(cleanJsonResponse(inv'[i].content)).kind = "SyntaxError")
        => (inv'[i].pc = "update" /\ inv'[i].analysisResult = DefaultAnalysis)
    ]_vars

\* C3 witness: an invocation whose analysis content did not parse has
\* returned 500 with the message of the ReferenceError, the row untouched
C3_Witness ==
  \E i \in Slots :
    /\ inv[i].pc = "done" /\ inv[i].response = 500
    /\ inv[i].error = <<"content is not defined">>
    /\ inv[i].ops = <<"fetch_row", "download_video", "transcribe", "analyze">>
    /\ row.status = "processing"

\* C4 (fatal errors are recorded on the row): when an invocation whose body
\* carries the id of the existing row, and which found that row, returns 500
\* from the top-level catch, the row has status failed and processing_error
\* equal to the exception message.
C4_FatalErrorRecorded ==
  [][ \A i \in Slots :
        (Returns(i) /\ inv[i].pc = "catch" /\ inv[i].body = "row"
         /\ inv[i].error # <<"Submission not found">> /\ "fetch_row" \in Range(inv[i].ops))
        => (inv'[i].response = 500 /\ row'.status = "failed"
            /\ row'.processing_error = Some(inv[i].error))
    ]_vars

\* C4 witness: a failed video download has been answered with 500 and no
\* write has reached the row
C4_Witness ==
  \E i \in Slots :
    /\ inv[i].pc = "done" /\ inv[i].response = 500 /\ inv[i].body = "row"
    /\ inv[i].ops = <<"fetch_row", "download_video">>
    /\ row.status = "processing" /\ lastWrite = NoWrite

\* the calls of the pipeline after the row fetch
AfterValidation == {"download_video", "transcribe", "download_docx", "extract_docx",
                    "analyze", "update_completed", "delete_video"}

\* C5 (transcription timeout): when the timer of the transcription call
\* fires first, the invocation issues the dedicated failed update, returns
\* 408, and makes no analysis call, completion update or blob deletion; the
\* update, when the store applies it, leaves the row failed with the
\* 'Processing timed out after 10 minutes...' message.
C5_TranscriptionTimeout ==
  [][ \A i \in Slots :
        (Returns(i) /\ inv[i].timedOut = "transcription") =>
          /\ inv'[i].response = 408
          /\ inv'[i].ops = <<"fetch_row", "download_video", "transcribe", "update_failed_timeout">>
          /\ \/ /\ lastWrite'.by = Writer("invocation", inv[i].serial)
                /\ row'.status = "failed"
                /\ row'.processing_error = Some(TimeoutProcessingError)
             \/ UNCHANGED <<rows, lastWrite>>
    ]_vars

\* C5 witness: the timer fired, the row is failed with the dedicated
\* message and the response is 408
C5_Witness ==
  \E i \in Slots :
    /\ inv[i].pc = "done" /\ inv[i].timedOut = "transcription" /\ inv[i].response = 408
    /\ lastWrite.by = Writer("invocation", inv[i].serial)
    /\ row.status = "failed" /\ row.processing_error = Some(TimeoutProcessingError)

\* C6 (missing video reference fails fast): for a row whose video_files is
\* null or has no path, no invocation makes any call after the row fetch,
\* and every response is the 500 error response.
C6_FailsFast ==
  row.video_files # "ok" =>
    \A i \in Slots :
      /\ Range(inv[i].ops) \cap AfterValidation = {}
      /\ inv[i].pc = "done" => inv[i].response = 500

\* C6 witness: the row without a path was fetched and the invocation
\* returned the validation error
C6_Witness ==
  \E i \in Slots :
    /\ row.video_files = "nopath"
    /\ inv[i].pc = "done" /\ inv[i].ops = <<"fetch_row">>
    /\ inv[i].error = <<"Invalid video file structure">> /\ inv[i].response = 500

\* the job's update of the row it is at has reached the store
JobUpdated == job.pc = "update" /\ job'.pc = "delay" /\ job'.updatedCount = job.updatedCount + 1

\* C7 (replacement rule, as the code has it): when the job's analysis of a
\* row parsed into an object with a KPI list of M items and the row stores
\* N, then after the job's update the stored list is the new list when
\* M > N or N = 0, and the previous list otherwise (M = N > 0 included).
C7_ReplacementRule ==
  [][ (JobUpdated /\ IsSome(job.newAnalysisResult)
       /\ IsSome(Val(job.newAnalysisResult).extracted_kpis)) =>
        LET id == job.submissions[job.k].id
            new == Val(job.newAnalysisResult)
            N == kpiCount(rows[id])
            M == kpiCount(new)
        IN rows'[id].extracted_kpis =
             IF M > N \/ N = 0 THEN new.extracted_kpis ELSE rows[id].extracted_kpis
    ]_vars

\* C7 as stated: the new list is stored whenever M >= N, the previous one
\* whenever M < N
C7_AtLeastAsMany ==
  [][ (JobUpdated /\ IsSome(job.newAnalysisResult)
       /\ IsSome(Val(job.newAnalysisResult).extracted_kpis)) =>
        LET id == job.submissions[job.k].id
            new == Val(job.newAnalysisResult)
            N == kpiCount(rows[id])
            M == kpiCount(new)
        IN rows'[id].extracted_kpis =
             IF M >= N THEN new.extracted_kpis ELSE rows[id].extracted_kpis
    ]_vars

\* C7 witness: the job has updated a row whose new analysis had as many
\* KPIs as the row stores, of other items, and the row keeps its own list
C7_Witness ==
  /\ job.pc = "delay" /\ job.updatedCount > 0 /\ IsSome(job.newAnalysisResult)
  /\ LET id == job.submissions[job.k].id
         new == Val(job.newAnalysisResult)
     IN /\ kpiCount(new) = kpiCount(rows[id]) /\ kpiCount(new) > 0
        /\ rows[id].extracted_kpis # new.extracted_kpis
        /\ rows[id].extracted_kpis = job.submissions[job.k].extracted_kpis

\* C8 (document extraction failure never prevents completion): when the
\* document download errors or throws, the blob is empty, or extraction
\* throws, the invocation goes on to the analysis call with a placeholder
\* string as the document text; and when the later stages succeed it returns
\* 200 with the row completed.
C8_DocxFailureNotFatal ==
  [][ \A i \in Slots :
        /\ (inv[i].pc = "docx" /\ inv'[i].pc # "docx" /\ inv'[i].docxFailed # "none")
             => (inv'[i].pc = "analyze" /\ inv'[i].docxText \in DocxPlaceholders)
        /\ (inv[i].docxFailed # "none" /\ inv[i].pc = "analyze" /\ inv'[i].pc # "analyze")
             => (inv[i].docxText \in DocxPlaceholders /\ "analyze" \in Range(inv'[i].ops))
        /\ (inv[i].docxFailed # "none" /\ inv[i].pc = "delete" /\ Returns(i))
             => (inv'[i].response = 200 /\ row'.status = "completed")
    ]_vars

\* C8 witness: extraction threw and the invocation has returned 200 with
\* the row completed
C8_Witness ==
  \E i \in Slots :
    /\ inv[i].pc = "done" /\ inv[i].docxFailed = "extraction throws"
    /\ inv[i].ops = <<"fetch_row", "download_video", "transcribe", "download_docx",
                      "extract_docx", "analyze", "update_completed", "delete_video">>
    /\ inv[i].response = 200 /\ row.status = "completed"

UpdateColumns == {"status", "processing_error", "transcript", "key_points",
                  "extracted_kpis", "sentiment", "ai_quotes"}

C10_FailsAtDownload ==
  \A i \in Slots :
    (~videoBlob /\ "delete_video" \notin Range(inv[i].ops)) =>
      /\ Range(inv[i].ops) \cap (AfterValidation \ {"download_video"}) = {}
      /\ "download_video" \in Range(inv[i].ops) => inv[i].pc \in {"catch", "timeout_write", "done"}
      /\ inv[i].pc = "done" => inv[i].response \in {408, 500}

\* C10 witness: the row was completed and its blob deleted, and the next
\* invocation has returned 500 after the download
C10_Witness ==
  \E i \in Slots :
    /\ ~videoBlob /\ row.status = "completed"
    /\ inv[i].serial > 1
    /\ inv[i].pc = "done" /\ inv[i].response = 500
    /\ inv[i].ops = <<"fetch_row", "download_video">>

\* number of times op occurs in a call log
Count(ops, op) == Cardinality({ k \in 1..Len(ops) : ops[k] = op })

\* C11 (best-effort cleanup): an invocation whose completion update reached
\* the row goes on to one deletion attempt of the video; however the
\* deletion ends (removed, error returned, exception), the step writes
\* nothing to the row, the row stays completed, and the invocation returns
\* the 200 success response.
C11_BestEffortCleanup ==
  [][ \A i \in Slots :
        /\ (inv[i].pc = "update" /\ inv'[i].pc # "update" /\ lastWrite' # lastWrite)
             => inv'[i].pc = "delete"
        /\ (inv[i].pc = "delete" /\ inv'[i].pc # "delete")
             => /\ inv'[i].pc = "done" /\ inv'[i].response = 200
                /\ Count(inv'[i].ops, "delete_video") = 1
                /\ UNCHANGED <<rows, lastWrite>>
                /\ row'.status = "completed"
    ]_vars

\* C11 witness: the deletion failed, the blob is still there, and the
\* invocation has returned 200 with the row completed
C11_Witness ==
  \E i \in Slots :
    /\ inv[i].pc = "done" /\ inv[i].response = 200
    /\ inv[i].ops[Len(inv[i].ops)] = "delete_video"
    /\ videoBlob
    /\ row.status = "completed" /\ lastWrite.by = Writer("invocation", inv[i].serial)

DerivedColumns == {"transcript", "key_points", "extracted_kpis", "ai_quotes"}

\* C12 (derived outputs only on completed rows): a row whose status is
\* processing or failed has transcript, key_points, extracted_kpis and
\* ai_quotes unset.
C12_OutputsOnlyWhenCompleted ==
  row.status \in {"processing", "failed"} => \A f \in DerivedColumns : row[f] = None

\* C12 witness: the row is failed and carries a transcript and a KPI list
C12_Witness ==
  /\ row.status = "failed"
  /\ IsSome(row.transcript) /\ IsSome(row.extracted_kpis)

StatusWrites == {"update_failed_timeout", "update_completed", "update_failed"}

\* an invocation that stopped after the row fetch and before any status write
Stuck(i) ==
  /\ inv[i].pc = "crashed"
  /\ "fetch_row" \in Range(inv[i].ops)
  /\ Range(inv[i].ops) \cap StatusWrites = {}

\* C14 (stuck rows, as the code has it): an invocation that stopped does
\* nothing more; the status of the row is changed only by a running
\* invocation or by the upload form (which records failed when its invoke
\* call errors), never by the reprocess job; and the rows a job run works on
\* are the ones that were completed with a transcript when it selected them.
C14_NoServerSideReconcile ==
  [][ /\ \A i \in Slots : inv[i].pc = "crashed" => inv'[i] = inv[i]
      /\ row'.status # row.status =>
           /\ lastWrite' # lastWrite
           /\ lastWrite'.by.who \in {"invocation", "client"}
           /\ lastWrite'.by.who = "invocation" =>
                \E i \in Slots : inv[i].serial = lastWrite'.by.serial /\ inv[i].pc # "crashed"
      /\ (job.pc \in {"idle", "done"} /\ job'.pc \notin {"idle", "done"}) =>
           \A k \in 1..Len(job'.submissions) :
             /\ rows[job'.submissions[k].id].status = "completed"
             /\ IsSome(rows[job'.submissions[k].id].transcript)
      /\ Len(job'.ops) > Len(job.ops) => \/ job'.ops = <<"select">>
                                         \/ job.k \in 1..Len(job.submissions)
    ]_vars

\* C14 as stated: once an invocation has stopped after the fetch, with none
\* running, a row in processing stays in processing
C14_StuckForever ==
  [][ ((\E i \in Slots : Stuck(i)) /\ (\A i \in Slots : inv[i].pc \in {"idle", "crashed"})
       /\ row.status = "processing")
      => row'.status = "processing"
    ]_vars

\* C14 witness: the invocation stopped before writing a status, and the
\* form has recorded failed on the row
C14_Witness ==
  \E i \in Slots :
    /\ Stuck(i)
    /\ row.status = "failed" /\ lastWrite.by.who = "client"

\* the stages of one invocation, in order, for a row with or without a
\* document reference (the extraction, which follows a successful document
\* download, aside)
StageSequence(docx) ==
  <<"fetch_row", "download_video", "transcribe">>
  \o (IF docx THEN <<"download_docx">> ELSE <<>>)
  \o <<"analyze", "update_completed", "delete_video">>

IsPrefix(s, t) == Len(s) <= Len(t) /\ s = SubSeq(t, 1, Len(s))

StageNames == Range(StageSequence(TRUE))

StagesOf(ops) == SelectSeq(ops, LAMBDA op : op \in StageNames)

StageOrder(i) ==
  /\ IsPrefix(StagesOf(inv[i].ops), StageSequence(row.docx_file))
  /\ Cardinality(Range(inv[i].ops)) = Len(inv[i].ops)
  /\ \A k \in 1..Len(inv[i].ops) :
       inv[i].ops[k] = "extract_docx" => (k > 1 /\ inv[i].ops[k - 1] = "download_docx")

C16_AnalysisTimeoutIs408 ==
  [][ \A i \in Slots :
        (Returns(i) /\ inv[i].timedOut = "analysis") =>
          /\ inv'[i].response = 408
          /\ row'.status = "failed"
          /\ row'.processing_error = Some(TimeoutProcessingError)
    ]_vars

\* C16 witness: the analysis timer fired and the invocation has returned the
\* generic 500 with the timer's message, the row still processing
C16_Witness ==
  \E i \in Slots :
    /\ inv[i].pc = "done" /\ inv[i].timedOut = "analysis"
    /\ inv[i].response = 500
    /\ inv[i].error = <<"Operation timed out after ", MsText(AnalysisTimeoutMs), "ms">>
    /\ row.status = "processing"

\* C17 (timeout classification is exact): an invocation returns 408, or
\* writes the 'Processing timed out after 10 minutes' message, only when its
\* transcription timer fired.
C17_TimeoutOnlyWhenTimerFired ==
  [][ \A i \in Slots :
        (Returns(i) /\ (inv'[i].response = 408
                        \/ "update_failed_timeout" \in Range(inv'[i].ops)))
        => inv[i].timedOut = "transcription"
    ]_vars

\* C17 witness: the video download failed with an error text that contains
\* 'timed out', no timer fired, and the invocation has written the timed-out
\* message and returned 408
C17_Witness ==
  \E i \in Slots :
    /\ inv[i].pc = "done" /\ inv[i].response = 408 /\ inv[i].timedOut = "none"
    /\ inv[i].ops = <<"fetch_row", "download_video", "update_failed_timeout">>
    /\ row.status = "failed" /\ row.processing_error = Some(TimeoutProcessingError)

\* C18 (analysis API error is swallowed): when the analysis call returns a
\* non-OK response, or an OK response without message content, the
\* invocation goes on to the update with the default analysis object; the
\* update, reaching the row, leaves it completed with the transcript and the
\* default values; and the deletion of the video is then attempted.
C18_AnalysisErrorSwallowed ==
  [][ \A i \in Slots :
        LET swallowed(iv) == iv.analysisReply \in {"not_ok", "no_content"}
        IN /\ (inv[i].pc = "analyze" /\ inv'[i].pc # "analyze" /\ swallowed(inv'[i]))
                => (inv'[i].pc = "update" /\ inv'[i].analysisResult = DefaultAnalysis)
           /\ (inv[i].pc = "update" /\ swallowed(inv[i]) /\ lastWrite' # lastWrite)
                => /\ inv'[i].pc = "delete"
                   /\ row'.status = "completed"
                   /\ row'.transcript = Some(inv[i].fullTranscript)
                   /\ \A f \in AnalysisFields : row'[f] = DefaultAnalysis[f]
           /\ (inv[i].pc = "delete" /\ swallowed(inv[i]) /\ inv'[i].pc # "delete")
                => (inv'[i].response = 200 /\ Count(inv'[i].ops, "delete_video") = 1)
    ]_vars

\* C18 witness: after a non-OK analysis response the row is completed with
\* the default values and the invocation is at the deletion
C18_Witness ==
  \E i \in Slots :
    /\ inv[i].pc = "delete" /\ inv[i].analysisReply = "not_ok"
    /\ row.status = "completed" /\ row.transcript = Some("long")
    /\ row.key_points = DefaultAnalysis.key_points /\ row.extracted_kpis = Some(<<>>)
    /\ row.sentiment = Some("neutral")

\* C19 (completed rows carry all derived fields): the update by which an
\* invocation sets the row to completed also sets transcript, key_points,
\* extracted_kpis, sentiment and ai_quotes, so that the row then holds lists
\* in the three list columns and a sentiment among positive, neutral and
\* negative, whatever content the analysis API returned.
C19_CompletedCarriesAllFields ==
  [][ \A i \in Slots :
        (inv[i].pc = "update" /\ inv'[i].pc = "delete") =>
          /\ lastWrite'.upd.status = Some("completed")
          /\ \A f \in DerivedColumns \cup AnalysisFields :
               IsSome(lastWrite'.upd[f]) /\ IsSome(row'[f])
          /\ Val(row'.sentiment) \in SentimentValues
    ]_vars

\* C19 witness: an invocation whose analysis content was an object holding
\* key_points alone has set a fresh row to completed; extracted_kpis,
\* sentiment and ai_quotes are unset
C19_Witness ==
  \E i \in Slots :
    /\ inv[i].pc = "delete" /\ inv[i].analysisResult = PartialObject
    /\ row.status = "completed" /\ IsSome(row.transcript) /\ IsSome(row.key_points)
    /\ row.extracted_kpis = None /\ row.sentiment = None /\ row.ai_quotes = None

\* C20 (failed invocations keep the video): an invocation that returns 408
\* or 500, the failure of its completion update included, has made no delete
\* call and returns with the blob as it was; the blob goes away only in the
\* delete step of an invocation whose completion update reached the row and
\* which returns 200.
C20_FailedKeepsVideo ==
  [][ /\ \A i \in Slots :
           /\ (Returns(i) /\ inv'[i].response \in {408, 500}) =>
                /\ "delete_video" \notin Range(inv'[i].ops)
                /\ videoBlob' = videoBlob
           /\ Count(inv'[i].ops, "delete_video") > Count(inv[i].ops, "delete_video") =>
                /\ inv[i].pc = "delete"
                /\ Count(inv[i].ops, "update_completed") = 1
                /\ inv'[i].response = 200
      /\ (videoBlob /\ ~videoBlob') =>
           \E j \in Slots : inv[j].pc = "delete" /\ Returns(j) /\ inv'[j].response = 200
    ]_vars

\* C20 witness: an invocation whose completion update was rejected has
\* returned 500 and the blob is still in the bucket
C20_Witness ==
  \E i \in Slots :
    /\ inv[i].pc = "done" /\ inv[i].response = 500
    /\ Count(inv[i].ops, "update_completed") = 1
    /\ "delete_video" \notin Range(inv[i].ops)
    /\ videoBlob

\* the row an invocation was started for
RowFor(i) == rows[RowOf(inv[i].submissionId)]

\* C21 (document stage runs exactly when a document was attached): for a
\* row created by the upload form, the invocation that has made its analysis
\* call has before it downloaded the document if and only if the user
\* attached a document to the submission.
C21_DocxStageIffAttached ==
  \A i \in Slots :
    "analyze" \in Range(inv[i].ops) =>
      (RowFor(i).pdf_file <=> "download_docx" \in Range(inv[i].ops))

\* C21 witness: the form uploaded a PDF and inserted the row with its path;
\* the invocation for the row has made its calls up to the delete and
\* returned 200 without a document download or extraction
C21_Witness ==
  \E i \in Slots :
    /\ client.selectedPDF /\ client.pdfFileName
    /\ inv[i].pc = "done" /\ inv[i].response = 200
    /\ RowFor(i).pdf_file /\ RowFor(i).status = "completed"
    /\ inv[i].ops = <<"fetch_row", "download_video", "transcribe", "analyze",
                      "update_completed", "delete_video">>

\* C28 (every created submission gets processed): once the batch has ended,
\* process-submission has been invoked for every row the form inserted,
\* whatever happened to the uploads and inserts of the other videos.
C28_EveryRowInvoked ==
  client.pc = "finished" => \A id \in 1..Len(rows) : id \in Range(client.invoked)

\* C28 witness: the form inserted the row of the first video, the upload of
\* the second video failed, and the batch ended with the row processing and
\* no invocation started
C28_Witness ==
  /\ client.pc = "finished" /\ client.videos = MaxVideos
  /\ Len(rows) = 1 /\ rows[1].status = "processing"
  /\ client.invoked = <<>> /\ started = 0
  /\ \A i \in Slots : inv[i].pc = "idle"

\* C22 (docxProcessed is truthful): in the success payload docxProcessed is
\* true only if the document was downloaded and extractDocxText returned
\* text extracted from, or analysed out of, the document; it is false when
\* docxText is one of the placeholder messages, and when the row has no
\* document reference.
C22_DocxProcessedTruthful ==
  [][ \A i \in Slots :
        (Returns(i) /\ inv'[i].response = 200) =>
          /\ inv'[i].docxProcessingSuccess =>
               /\ "extract_docx" \in Range(inv[i].ops)
               /\ inv[i].docxText \in {TxtExtractedLong, TxtExtractedShort, TxtAnalysisLong, TxtAnalysisShort}
          /\ (inv[i].docxText \in DocxPlaceholders \/ ~row.docx_file) => ~inv'[i].docxProcessingSuccess
    ]_vars

\* C22 witness: the extraction found no text and its chat call was answered
\* non-OK, docxText is the could-not-extract message, and the invocation is
\* about to return 200 with docxProcessed true
C22_Witness ==
  \E i \in Slots :
    /\ inv[i].pc = "delete" /\ inv[i].docxText = TxtCouldNotExtract
    /\ inv[i].docxProcessingSuccess /\ row.status = "completed"

JobRunning == job.pc \in {"row", "update", "delay"}

\* C24 (reprocess loop isolation): in a run of the job the selected rows are
\* taken one after the other in selection order, each once; whatever the
\* handling of a row ends with, the loop goes on to the next row, and after
\* the last row the job returns 200 with its two counts.
C24_LoopIsolation ==
  [][ JobRunning =>
        /\ job'.pc # "done" =>
             /\ job'.submissions = job.submissions
             /\ job'.k = IF job'.pc = "row" THEN job.k + 1 ELSE job.k
             /\ job'.k <= Len(job.submissions)
        /\ job'.pc = "done" =>
             /\ job.k = Len(job.submissions)
             /\ job'.response = 200
             /\ job'.updatedCount <= job'.processedCount
             /\ job'.processedCount <= Len(job.submissions)
    ]_vars

\* C24 witness: two rows were selected, the update of one of them was
\* rejected, both were handled and the job returned 200
C24_Witness ==
  /\ job.pc = "done" /\ job.response = 200
  /\ job.ops = <<"select", "analyze", "update", "delay", "analyze", "update", "delay">>
  /\ job.processedCount = 2 /\ job.updatedCount = 1

\* the analysis call for the current row of the job failed: a non-OK
\* response, a body that is not the expected JSON, or a content that does
\* not parse
ReanalysisFailed(j) ==
  \/ j.analysisReply \in {"not_ok", "no_choices", "invalid"}
  \/ j.analysisReply = "content" /\ j.newAnalysisResult = None

\* C25 (failed re-analysis keeps stored data): when the analysis call for a
\* row failed, the job leaves the row's key_points, extracted_kpis, sentiment
\* and ai_quotes as they were, whether or not the row had KPIs.
C25_FailedKeepsStored ==
  [][ (JobRunning /\ ReanalysisFailed(job)) =>
        \A f \in AnalysisFields :
          rows'[job.submissions[job.k].id][f] = rows[job.submissions[job.k].id][f]
    ]_vars

\* C25 witness: the analysis call for a row without KPIs was answered
\* non-OK and the job has replaced the row's stored key points by its
\* placeholder
C25_Witness ==
  /\ job.pc = "delay" /\ job.analysisReply = "not_ok" /\ ~job.hasGoodKPIs
  /\ lastWrite.by = Writer("job", 0)
  /\ job.submissions[job.k].key_points = Some(<<"px">>)
  /\ rows[job.submissions[job.k].id].key_points = Some(<<"Content reprocessed successfully">>)

\* the columns of a row the job's update statement does not name
JobFrameColumns == {"status", "processing_error", "transcript", "video_files", "docx_file", "pdf_file"}

\* C26 (reprocess frame): no step of the reprocess job changes a row's
\* status, transcript, video reference or document reference, none removes
\* or downloads a blob or calls the transcription API: the job's calls are
\* the selection, the analysis call, the row update and the delay, and its
\* update statement names key_points, extracted_kpis, sentiment and
\* ai_quotes only.
C26_ReprocessFrame ==
  [][ job' # job =>
        /\ \A id \in 1..Len(rows) : \A f \in JobFrameColumns : rows'[id][f] = rows[id][f]
        /\ Len(rows') = Len(rows)
        /\ videoBlob' = videoBlob
        /\ Range(job'.ops) \subseteq {"select", "analyze", "update", "delay"}
        /\ lastWrite' # lastWrite =>
             /\ lastWrite'.by = Writer("job", 0)
             /\ \A f \in UpdateColumns \ AnalysisFields : lastWrite'.upd[f] = None
    ]_vars

\* C26 witness: the job has replaced the stored analysis of the row, whose
\* status and transcript are as before
C26_Witness ==
  /\ job.pc = "delay" /\ lastWrite.by = Writer("job", 0)
  /\ row.extracted_kpis # job.submissions[job.k].extracted_kpis
  /\ job.submissions[job.k].id = Target
  /\ row.status = "completed" /\ row.transcript = job.submissions[job.k].transcript

\* C27 (reprocess rate limiting): between any two analysis calls of one run
\* of the job the one-second delay step is executed.
C27_DelayBetweenCalls ==
  \A a, b \in 1..Len(job.ops) :
    (a < b /\ job.ops[a] = "analyze" /\ job.ops[b] = "analyze") =>
      \E c \in (a + 1)..(b - 1) : job.ops[c] = "delay"

\* C27 witness: the call for the first row, a row with KPIs, was answered
\* non-OK, the row was counted as processed, and the call for the second row
\* followed with no update and no delay between
C27_Witness ==
  /\ job.pc = "update" /\ job.k = 2
  /\ job.ops = <<"select", "analyze", "analyze">>
  /\ job.processedCount = 1

TimerMessage(ms) == <<"Operation timed out after ", MsText(ms), "ms">>

\* C29 (late responses are inert): the transcription race settles once, with
\* the timer's message exactly when the timer fired first; the timed-out
\* invocation then writes the failure and returns 408; and the settlement of
\* the transcription request after that, with a result or an error, changes
\* no row and no blob and makes the invocation do nothing more.
C29_LateResponsesInert ==
  [][ \A i \in Slots :
        /\ (inv[i].pc = "transcribe" /\ inv'[i].pc # "transcribe") =>
             /\ inv'[i].error = TimerMessage(TranscriptionTimeoutMs) <=> inv'[i].timedOut = "transcription"
             /\ inv'[i].timedOut = "transcription" => inv'[i].pc = "timeout_write"
        /\ (inv[i].pc = "timeout_write" /\ inv'[i].pc # "timeout_write") =>
             (inv'[i].pc = "done" /\ inv'[i].response = 408)
        /\ (inv'[i].late # inv[i].late /\ inv'[i].serial = inv[i].serial) =>
             /\ inv'[i] = [inv[i] EXCEPT !.late = inv'[i].late]
             /\ rows' = rows /\ lastWrite' = lastWrite /\ videoBlob' = videoBlob
        /\ (inv[i].pc = "done" /\ inv[i].late # "none" /\ inv'[i].serial = inv[i].serial) =>
             (inv'[i] = inv[i] /\ rows' = rows /\ videoBlob' = videoBlob)
    ]_vars

\* C29 witness: the invocation timed out, wrote the failure and returned
\* 408, and the transcription request then completed with a result; the row
\* is as the timeout write left it and the blob is in place
C29_Witness ==
  \E i \in Slots :
    /\ inv[i].pc = "done" /\ inv[i].response = 408
    /\ inv[i].timedOut = "transcription" /\ inv[i].late = "fulfilled"
    /\ inv[i].ops = <<"fetch_row", "download_video", "transcribe", "update_failed_timeout">>
    /\ row.status = "failed" /\ row.processing_error = Some(TimeoutProcessingError)
    /\ row.transcript = None /\ videoBlob

\* C30: cleanJsonResponse, in both functions, returns the substring from the
\* first "{" to the last "}" of the trimmed text without its opening
\* ```json / ``` fence and its closing ``` fence when a "{" comes before the
\* last "}", and that whole text otherwise; what the handlers then parse is
\* this result.
DropPrefix(s, p) ==
  IF Len(s) >= Len(p) /\ SubSeq(s, 1, Len(p)) = p
  THEN LET rest == SubSeq(s, Len(p) + 1, Len(s))
           k == Cardinality({ n \in 1..Len(rest) : \A m \in 1..n : IsWs(rest[m]) })
       IN SubSeq(rest, k + 1, Len(rest))
  ELSE s
DropSuffix(s, p) ==
  IF Len(s) >= Len(p) /\ SubSeq(s, Len(s) - Len(p) + 1, Len(s)) = p
  THEN LET rest == SubSeq(s, 1, Len(s) - Len(p))
           k == Cardinality({ n \in 1..Len(rest) :
                                \A m \in (Len(rest) - n + 1)..Len(rest) : IsWs(rest[m]) })
       IN SubSeq(rest, 1, Len(rest) - k)
  ELSE s
Unfenced(content) ==
  trim(DropSuffix(DropPrefix(DropPrefix(trim(content), FenceJson), Fence), Fence))
Opens(s) == { a \in 1..Len(s) : s[a].c = "{" }
Closes(s) == { b \in 1..Len(s) : s[b].c = "}" }
HasBracePair(s) == \E a \in Opens(s) : \E b \in Closes(s) : a < b /\ \A b2 \in Closes(s) : b2 <= b
BraceSpan(s) ==
  LET a == CHOOSE x \in Opens(s) : \A y \in Opens(s) : x <= y
      b == CHOOSE x \in Closes(s) : \A y \in Closes(s) : y <= x
  IN SubSeq(s, a, b)
Extraction(content) ==
  IF HasBracePair(Unfenced(content)) THEN BraceSpan(Unfenced(content)) ELSE Unfenced(content)
ExtractsAsStated(content) ==
  /\ cleanJsonResponse(content) = Extraction(content)
  /\ cleanJsonResponseReprocess(content) = cleanJsonResponse(content)
C30_CleanJsonExtraction ==
  /\ \A i \in Slots :
       inv[i].content # <<>> =>
         /\ ExtractsAsStated(inv[i].content)
         /\ inv[i].pc = "update" =>
              /\ JSONparse(Extraction(inv[i].content)).kind = "object"
              /\ inv[i].analysisResult = JSONparse(Extraction(inv[i].content)).v
  /\ job.content # <<>> =>
       /\ ExtractsAsStated(job.content)
       /\ job.newAnalysisResult # None <=> JSONparse(Extraction(job.content)).kind = "object"
       /\ job.newAnalysisResult # None =>
            job.newAnalysisResult = Some(JSONparse(Extraction(job.content)).v)

\* prose and fences around an object literal: the object literal is extracted
C30_Witness ==
  /\ inv[First].content = FenceJson \o Str(<<" ">>) \o Bare(CoarseObject("x")) \o Fence
  /\ inv[First].pc = "update"
  /\ cleanJsonResponse(inv[First].content) = Bare(CoarseObject("x"))

====
